---- MODULE Spec2Model ----
\* A model of boxing/models/boxers_model.py: the boxers table, the six
\* repository operations and the weight-class classifier.
\*
\* Every operation opens its own connection, and sqlite3 runs each statement
\* on its own: a SELECT is over when fetchone() has read its only row, and the
\* write transaction opens with the INSERT/UPDATE/DELETE and ends at commit().
\* An operation that looks a row up and then writes is therefore two steps,
\* and another client's statements may run between the two.
EXTENDS Integers, Sequences, FiniteSets, TLC

VARIABLES
    boxers,   \* the rows of the boxers table
    seq,      \* the largest id the table has assigned so far
    pc,       \* per client: "idle", or the statement its call runs next
    args,     \* per client: the arguments of the call in flight
    last      \* what the most recent step returned to its caller, if it returned

vars == <<boxers, seq, pc, args, last>>

----------------------------------------------------------------------------
\* Bounds and input sets

\* ids the table may assign before creation stops
MaxId == 2
\* fights the table may record in total before updating stops
MaxFights == 2
\* the weights the classifier is applied to on its own
WeightLo == 100
WeightHi == 230

Clients == {"c1", "c2"}
Names == {"ali", "tyson"}
Ids == 1..MaxId
Results == {"win", "loss", "draw"}
SortKeys == {"wins", "win_pct", "name"}

Attrs(weight, height, reach, age) ==
    [weight |-> weight, height |-> height, reach |-> reach, age |-> age]

\* Valid attributes on the boundaries, and attributes that break one
\* constraint each. reach is in whole inches.
ValidAttrs == {Attrs(125, 70, 72, 18), Attrs(203, 75, 80, 40)}
InvalidAttrs ==
    {Attrs(124, 70, 72, 18), Attrs(125, 0, 72, 18), Attrs(125, 70, 0, 18),
     Attrs(125, 70, 72, 17), Attrs(125, 70, 72, 41)}
CreateInputs == ValidAttrs \cup InvalidAttrs

NoArgs == [op |-> "none"]
NoEvent == [op |-> "none"]

----------------------------------------------------------------------------
\* The weight-class classifier

get_weight_class_gt(weight) ==
    IF weight >= 203 THEN "HEAVYWEIGHT"
    ELSE IF weight >= 166 THEN "MIDDLEWEIGHT"
    ELSE IF weight > 133 THEN "LIGHTWEIGHT"
    ELSE IF weight >= 125 THEN "FEATHERWEIGHT"
    ELSE "invalid_weight_class"

\* The class of a weight, or "invalid_weight_class" for the ValueError
\* "Invalid weight: ... Weight must be at least 125."
get_weight_class(weight) ==
    IF weight >= 203 THEN "HEAVYWEIGHT"
    ELSE IF weight >= 166 THEN "MIDDLEWEIGHT"
    ELSE IF weight >= 133 THEN "LIGHTWEIGHT"
    ELSE IF weight >= 125 THEN "FEATHERWEIGHT"
    ELSE "invalid_weight_class"

WeightClasses == {"HEAVYWEIGHT", "MIDDLEWEIGHT", "LIGHTWEIGHT", "FEATHERWEIGHT"}

----------------------------------------------------------------------------
\* The boxers table

\* The columns the INSERT does not name take the table's defaults.
ColumnDefaults == [fights |-> 0, wins |-> 0]

\* A row as INSERT INTO boxers (name, weight, height, reach, age) leaves it,
\* under the id the table assigns.
NewRow(id, name, a) ==
    [id |-> id, name |-> name, weight |-> a.weight, height |-> a.height,
     reach |-> a.reach, age |-> a.age,
     fights |-> ColumnDefaults.fights, wins |-> ColumnDefaults.wins]

\* The id of the next inserted row: one more than any id assigned before.
NextId == seq + 1

\* The table's UNIQUE constraint on name: the INSERT raises IntegrityError.
UniqueViolation(name) == \E b \in boxers : b.name = name

RowsById(id) == {b \in boxers : b.id = id}
RowsByName(name) == {b \in boxers : b.name = name}

InFlight(p) == Cardinality({c \in Clients : pc[c] = p})

RECURSIVE SumFights(_)
SumFights(S) ==
    IF S = {} THEN 0
    ELSE LET b == CHOOSE x \in S : TRUE IN b.fights + SumFights(S \ {b})

Returned(c, ev) ==
    /\ pc' = [pc EXCEPT ![c] = "idle"]
    /\ args' = [args EXCEPT ![c] = NoArgs]
    /\ last' = ev

Proceed(c, p, a) ==
    /\ pc' = [pc EXCEPT ![c] = p]
    /\ args' = [args EXCEPT ![c] = a]
    /\ last' = NoEvent
    /\ UNCHANGED <<boxers, seq>>

----------------------------------------------------------------------------
\* create_boxer

ValidateBoxer_age_exclusive(weight, height, reach, age) ==
    IF weight < 125 THEN "invalid_weight"
    ELSE IF height <= 0 THEN "invalid_height"
    ELSE IF reach <= 0 THEN "invalid_reach"
    ELSE IF ~(18 < age /\ age <= 40) THEN "invalid_age"
    ELSE "ok"

\* The four checks at the head of create_boxer, in the code's order.
ValidateBoxer(weight, height, reach, age) ==
    IF weight < 125 THEN "invalid_weight"
    ELSE IF height <= 0 THEN "invalid_height"
    ELSE IF reach <= 0 THEN "invalid_reach"
    ELSE IF ~(18 <= age /\ age <= 40) THEN "invalid_age"
    ELSE "ok"

\* stmt is the place the call returned from: "validate", "select" or "insert".
CreateEvent(name, a, result, stmt) ==
    [op |-> "create_boxer", name |-> name, weight |-> a.weight,
     height |-> a.height, reach |-> a.reach, age |-> a.age,
     result |-> result, stmt |-> stmt, conn |-> (stmt # "validate")]

OnIntegrityError_reraise(name) == "IntegrityError"

\* except sqlite3.IntegrityError: the same ValueError as the pre-check raises.
OnIntegrityError(name) == "already_exists"

\* The validation and the pre-insert lookup.
create_boxer(c) ==
    /\ pc[c] = "idle"
    /\ \E name \in Names, a \in CreateInputs :
        LET v == ValidateBoxer(a.weight, a.height, a.reach, a.age) IN
        IF v # "ok"
        THEN /\ Returned(c, CreateEvent(name, a, v, "validate"))
             /\ UNCHANGED <<boxers, seq>>
        ELSE IF RowsByName(name) # {}
        THEN /\ Returned(c, CreateEvent(name, a, "already_exists", "select"))
             /\ UNCHANGED <<boxers, seq>>
        ELSE /\ seq + InFlight("create_insert") < MaxId
             /\ Proceed(c, "create_insert",
                        [op |-> "create_boxer", name |-> name, attrs |-> a])

\* The INSERT and the commit.
create_boxer_insert(c) ==
    /\ pc[c] = "create_insert"
    /\ LET name == args[c].name
           a == args[c].attrs
       IN  IF UniqueViolation(name)
           THEN /\ Returned(c, CreateEvent(name, a, OnIntegrityError(name), "insert"))
                /\ UNCHANGED <<boxers, seq>>
           ELSE /\ boxers' = boxers \cup {NewRow(NextId, name, a)}
                /\ seq' = NextId
                /\ Returned(c, CreateEvent(name, a, "ok", "insert"))

----------------------------------------------------------------------------
\* delete_boxer

DeleteEvent(id, result) ==
    [op |-> "delete_boxer", id |-> id, result |-> result, conn |-> TRUE]

\* The lookup of the id.
delete_boxer(c) ==
    /\ pc[c] = "idle"
    /\ \E id \in Ids :
        IF RowsById(id) = {}
        THEN /\ Returned(c, DeleteEvent(id, "id_not_found"))
             /\ UNCHANGED <<boxers, seq>>
        ELSE Proceed(c, "delete_delete", [op |-> "delete_boxer", id |-> id])

\* DELETE FROM boxers WHERE id = ?, and the commit.
delete_boxer_delete(c) ==
    /\ pc[c] = "delete_delete"
    /\ boxers' = boxers \ RowsById(args[c].id)
    /\ seq' = seq
    /\ Returned(c, DeleteEvent(args[c].id, "ok"))

----------------------------------------------------------------------------
\* update_boxer_stats

UpdateStats_wins_only(b, result) ==
    IF result = "win"
    THEN [b EXCEPT !.wins = @ + 1]
    ELSE [b EXCEPT !.fights = @ + 1]

\* The SET clause of the UPDATE chosen by result.
UpdateStats(b, result) ==
    IF result = "win"
    THEN [b EXCEPT !.fights = @ + 1, !.wins = @ + 1]
    ELSE [b EXCEPT !.fights = @ + 1]

UpdateEvent(id, result, outcome, conn) ==
    [op |-> "update_boxer_stats", id |-> id, arg |-> result,
     result |-> outcome, conn |-> conn]

\* The check of result and the lookup of the id.
update_boxer_stats(c) ==
    /\ pc[c] = "idle"
    /\ \E id \in Ids, result \in Results :
        IF result \notin {"win", "loss"}
        THEN /\ Returned(c, UpdateEvent(id, result, "invalid_result", FALSE))
             /\ UNCHANGED <<boxers, seq>>
        ELSE IF RowsById(id) = {}
        THEN /\ Returned(c, UpdateEvent(id, result, "id_not_found", TRUE))
             /\ UNCHANGED <<boxers, seq>>
        ELSE /\ SumFights(boxers) + InFlight("update_update") < MaxFights
             /\ Proceed(c, "update_update",
                        [op |-> "update_boxer_stats", id |-> id, arg |-> result])

\* UPDATE boxers SET ... WHERE id = ?, and the commit.
update_boxer_stats_update(c) ==
    /\ pc[c] = "update_update"
    /\ boxers' = {IF b.id = args[c].id THEN UpdateStats(b, args[c].arg) ELSE b :
                  b \in boxers}
    /\ seq' = seq
    /\ Returned(c, UpdateEvent(args[c].id, args[c].arg, "ok", TRUE))

----------------------------------------------------------------------------
\* get_boxer_by_id, get_boxer_by_name

Boxer_swapped(row) ==
    [id |-> row.id, name |-> row.name, weight |-> row.weight,
     height |-> row.reach, reach |-> row.height, age |-> row.age,
     weight_class |-> get_weight_class(row.weight)]

\* The Boxer dataclass built from a fetched row; __post_init__ sets
\* weight_class, or raises the classifier's ValueError.
Boxer(row) ==
    [id |-> row.id, name |-> row.name, weight |-> row.weight,
     height |-> row.height, reach |-> row.reach, age |-> row.age,
     weight_class |-> get_weight_class(row.weight)]

FetchEvent(op, key, rows, row) ==
    IF rows = {}
    THEN [op |-> op, key |-> key, conn |-> TRUE,
          result |-> IF op = "get_boxer_by_id" THEN "id_not_found"
                     ELSE "name_not_found"]
    ELSE IF Boxer(row).weight_class \notin WeightClasses
    THEN [op |-> op, key |-> key, conn |-> TRUE,
          result |-> "invalid_weight_class"]
    ELSE [op |-> op, key |-> key, conn |-> TRUE, result |-> "ok",
          ret |-> Boxer(row)]

get_boxer_by_id(c) ==
    /\ pc[c] = "idle"
    /\ \E id \in Ids :
        \/ /\ RowsById(id) = {}
           /\ Returned(c, FetchEvent("get_boxer_by_id", id, {}, NoArgs))
        \/ \E row \in RowsById(id) :
              Returned(c, FetchEvent("get_boxer_by_id", id, RowsById(id), row))
    /\ UNCHANGED <<boxers, seq>>

get_boxer_by_name(c) ==
    /\ pc[c] = "idle"
    /\ \E name \in Names :
        \/ /\ RowsByName(name) = {}
           /\ Returned(c, FetchEvent("get_boxer_by_name", name, {}, NoArgs))
        \/ \E row \in RowsByName(name) :
              Returned(c, FetchEvent("get_boxer_by_name", name,
                                     RowsByName(name), row))
    /\ UNCHANGED <<boxers, seq>>

----------------------------------------------------------------------------
\* get_leaderboard

Eligible_wins(b) == b.wins > 0

\* WHERE fights > 0
Eligible(b) == b.fights > 0

OrderedBy_asc(sort_by, a, b) ==
    IF sort_by = "win_pct"
    THEN a.wins * b.fights <= b.wins * a.fights
    ELSE a.wins <= b.wins

\* ORDER BY win_pct DESC / ORDER BY wins DESC: row a may come right before
\* row b. win_pct is wins * 1.0 / fights, compared here as a fraction.
OrderedBy(sort_by, a, b) ==
    IF sort_by = "win_pct"
    THEN a.wins * b.fights >= b.wins * a.fights
    ELSE a.wins >= b.wins

\* round(win_pct * 100, 1), in tenths of a percent, halves to the even tenth.
RoundPct(wins, fights) ==
    LET n == 1000 * wins
        q == n \div fights
        r == n % fights
    IN  IF 2 * r < fights THEN q
        ELSE IF 2 * r > fights THEN q + 1
        ELSE IF q % 2 = 0 THEN q ELSE q + 1

LeaderboardEntry(row) ==
    [id |-> row.id, name |-> row.name, weight |-> row.weight,
     height |-> row.height, reach |-> row.reach, age |-> row.age,
     weight_class |-> get_weight_class(row.weight),
     fights |-> row.fights, wins |-> row.wins,
     win_pct |-> RoundPct(row.wins, row.fights)]

\* The orders in which the query may return the rows of S.
QueryOrders(S, sort_by) ==
    {s \in [1..Cardinality(S) -> S] :
        /\ \A i, j \in DOMAIN s : i # j => s[i] # s[j]
        /\ \A i \in DOMAIN s : i + 1 \in DOMAIN s => OrderedBy(sort_by, s[i], s[i + 1])}

LeaderboardEvent(sort_by, result, ret, conn) ==
    [op |-> "get_leaderboard", sort_by |-> sort_by, result |-> result,
     ret |-> ret, conn |-> conn]

get_leaderboard(c) ==
    /\ pc[c] = "idle"
    /\ \E sort_by \in SortKeys :
        IF sort_by \notin {"win_pct", "wins"}
        THEN Returned(c, LeaderboardEvent(sort_by, "invalid_sort_by", <<>>, FALSE))
        ELSE \E rows \in QueryOrders({b \in boxers : Eligible(b)}, sort_by) :
            IF \E i \in DOMAIN rows : get_weight_class(rows[i].weight) \notin WeightClasses
            THEN Returned(c, LeaderboardEvent(sort_by, "invalid_weight_class", <<>>, TRUE))
            ELSE Returned(c, LeaderboardEvent(sort_by, "ok",
                     [i \in DOMAIN rows |-> LeaderboardEntry(rows[i])], TRUE))
    /\ UNCHANGED <<boxers, seq>>

----------------------------------------------------------------------------
\* The repository under concurrent clients

Init ==
    /\ boxers = {}
    /\ seq = 0
    /\ pc = [c \in Clients |-> "idle"]
    /\ args = [c \in Clients |-> NoArgs]
    /\ last = NoEvent

Next ==
    \E c \in Clients :
        \/ create_boxer(c)
        \/ create_boxer_insert(c)
        \/ delete_boxer(c)
        \/ delete_boxer_delete(c)
        \/ update_boxer_stats(c)
        \/ update_boxer_stats_update(c)
        \/ get_boxer_by_id(c)
        \/ get_boxer_by_name(c)
        \/ get_leaderboard(c)

Spec == Init /\ [][Next]_vars

\* The same clients when no call starts before the one in flight has returned.
SerialNext ==
    \E c \in Clients :
        /\ \A d \in Clients \ {c} : pc[d] = "idle"
        /\ \/ create_boxer(c)
           \/ create_boxer_insert(c)
           \/ delete_boxer(c)
           \/ delete_boxer_delete(c)
           \/ update_boxer_stats(c)
           \/ update_boxer_stats_update(c)
           \/ get_boxer_by_id(c)
           \/ get_boxer_by_name(c)
           \/ get_leaderboard(c)

SerialSpec == Init /\ [][SerialNext]_vars

----------------------------------------------------------------------------
\* The classifier on its own, applied to every weight of WeightLo..WeightHi

ClassifyInit ==
    /\ boxers = {}
    /\ seq = 0
    /\ pc = [c \in Clients |-> "idle"]
    /\ args = [c \in Clients |-> NoArgs]
    /\ last \in {[op |-> "call_get_weight_class", weight |-> w] : w \in WeightLo..WeightHi}

Classify ==
    /\ last.op = "call_get_weight_class"
    /\ last' = [op |-> "get_weight_class", weight |-> last.weight,
                result |-> get_weight_class(last.weight)]
    /\ UNCHANGED <<boxers, seq, pc, args>>

ClassifySpec == ClassifyInit /\ [][Classify]_vars

----------------------------------------------------------------------------
\* Properties

ValidationErrors == {"invalid_weight", "invalid_height", "invalid_reach", "invalid_age"}

NoDuplicateNames(rows) == \A a, b \in rows : a.name = b.name => a = b

\* C1: in every reachable state, under any interleaving of the clients'
\* calls, every stored boxer has 0 <= wins <= fights.
C1_WinsWithinFights ==
    \A b \in boxers : 0 <= b.wins /\ b.wins <= b.fights /\ 0 <= b.fights

C1_Witness ==
    /\ last.op = "update_boxer_stats" /\ last.result = "ok" /\ last.arg = "win"
    /\ \E b \in boxers : b.id = last.id /\ b.wins = 1 /\ b.fights = 2
    /\ \E c \in Clients : pc[c] # "idle"

C5_UpdateChangesOnlyCounters ==
    [][/\ (last'.op = "update_boxer_stats" /\ last'.result = "ok") =>
            \E b \in boxers :
                /\ b.id = last'.id
                /\ boxers' = (boxers \ {b}) \cup
                      {[b EXCEPT !.fights = @ + 1,
                                 !.wins = IF last'.arg = "win" THEN @ + 1 ELSE @]}
       /\ \A b \in boxers, b2 \in boxers' :
            (b.id = b2.id /\ b # b2) =>
                (last'.op = "update_boxer_stats" /\ last'.result = "ok"
                 /\ last'.id = b.id)]_vars

\* C6: update_boxer_stats returns the validation error for a result outside
\* {"win", "loss"} before opening a connection, returns not-found when no
\* boxer has the id, changes no counter when it returns an error, and returns
\* success only when it has raised fights of a stored boxer with that id.
C6_UpdateErrors ==
    [][last'.op = "update_boxer_stats" =>
        LET e == last' IN
        /\ e.arg \notin {"win", "loss"} => (e.result = "invalid_result" /\ ~e.conn)
        /\ (e.arg \in {"win", "loss"} /\ RowsById(e.id) = {}) => e.result = "id_not_found"
        /\ e.result # "ok" => boxers' = boxers
        /\ e.result = "ok" =>
              \E b \in boxers, b2 \in boxers' :
                  b.id = e.id /\ b2.id = e.id /\ b2.fights = b.fights + 1]_vars

\* C7: delete_boxer on an id that is not stored returns not-found and leaves
\* the table as it was; a successful delete_boxer(id) removes the boxer with
\* that id and no other; an id that has left the table never returns to it,
\* and get_boxer_by_id, update_boxer_stats and delete_boxer on it return
\* not-found.
C7_DeleteRemoves ==
    [][/\ last'.op = "delete_boxer" =>
            /\ RowsById(last'.id) = {} =>
                  (last'.result = "id_not_found" /\ boxers' = boxers)
            /\ last'.result = "ok" =>
                  \E b \in boxers : b.id = last'.id /\ boxers' = boxers \ {b}
       /\ \A id \in Ids : (id <= seq /\ RowsById(id) = {}) =>
            /\ \A b \in boxers' : b.id # id
            /\ (last'.op = "get_boxer_by_id" /\ last'.key = id)
                  => last'.result = "id_not_found"
            /\ (last'.op = "update_boxer_stats" /\ last'.id = id
                /\ last'.arg \in {"win", "loss"})
                  => last'.result = "id_not_found"]_vars

\* C8: get_leaderboard with either valid sort_by returns exactly one entry
\* for each stored boxer with fights > 0 and none for a boxer with fights = 0,
\* and each entry carries the stored fights and wins and the class of the
\* stored weight.
C8_LeaderboardMembers ==
    (last.op = "get_leaderboard" /\ last.sort_by \in {"wins", "win_pct"}) =>
        /\ last.result = "ok"
        /\ \A b \in boxers : b.fights > 0 =>
              Cardinality({i \in DOMAIN last.ret : last.ret[i].id = b.id}) = 1
        /\ \A i \in DOMAIN last.ret :
              \E b \in boxers :
                  /\ b.id = last.ret[i].id /\ b.fights > 0
                  /\ last.ret[i].fights = b.fights /\ last.ret[i].wins = b.wins
                  /\ last.ret[i].weight = b.weight
                  /\ last.ret[i].weight_class = get_weight_class(b.weight)
                  /\ last.ret[i].weight_class \in WeightClasses

C8_Witness ==
    /\ last.op = "get_leaderboard" /\ last.result = "ok" /\ Len(last.ret) = 1
    /\ last.ret[1].wins = 0
    /\ \E b \in boxers : b.fights = 0

C10_RoundTrip ==
    [][/\ (last'.op = "create_boxer" /\ last'.result = "ok") =>
            \E r \in boxers' \ boxers :
                /\ r.name = last'.name /\ r.weight = last'.weight
                /\ r.height = last'.height /\ r.reach = last'.reach
                /\ r.age = last'.age
       /\ \A b \in boxers, b2 \in boxers' : b.id = b2.id =>
            /\ b2.name = b.name /\ b2.weight = b.weight /\ b2.height = b.height
            /\ b2.reach = b.reach /\ b2.age = b.age
       /\ \A b \in boxers' : b.weight >= 125
       /\ last'.op \in {"get_boxer_by_id", "get_boxer_by_name"} =>
            LET e == last'
                hit == IF e.op = "get_boxer_by_id" THEN {b \in boxers' : b.id = e.key}
                       ELSE {b \in boxers' : b.name = e.key}
            IN  /\ e.result # "invalid_weight_class"
                /\ hit # {} =>
                      /\ e.result = "ok"
                      /\ \E b \in hit :
                            e.ret = [id |-> b.id, name |-> b.name,
                                     weight |-> b.weight, height |-> b.height,
                                     reach |-> b.reach, age |-> b.age,
                                     weight_class |-> get_weight_class(b.weight)]]_vars

C10_Witness ==
    /\ last.op = "get_boxer_by_name" /\ last.result = "ok"
    /\ last.ret.weight_class = "HEAVYWEIGHT" /\ last.ret.age = 40
    /\ \E b \in boxers : b.id = last.ret.id /\ b.fights > 0

====
